---- MODULE Spec2Model ----
(***************************************************************************)
(* A model of txjuju/version.py: the VersionNumber and Version value types, *)
(* their parsers, validators, formatters and the wildcard matcher.          *)
(*                                                                          *)
(* Python values are tagged records [k, n, s]: k is the Python type, n the  *)
(* value of an int or bool, s the characters of a str.  A str is a sequence *)
(* of one-character strings, so that partition, startswith, lower, int()    *)
(* and str() are computed character by character as the interpreter does.   *)
(* The source is Python 2 ("except TypeError, ValueError:"), and the model  *)
(* follows Python 2.7.                                                      *)
(***************************************************************************)
EXTENDS Integers, Sequences, FiniteSets, TLC

VARIABLES call, numberObj, versionObj, result

vars == <<call, numberObj, versionObj, result>>

(***************************************************************************)
(* Bounds of the model.                                                     *)
(***************************************************************************)
\* Version components range over 0..MaxNum (and the two-digit BigNum).
MaxNum == 2
\* A two-digit component, so that str() and int() handle several digits.
BigNum == 10

(***************************************************************************)
(* Python values.                                                           *)
(***************************************************************************)
PyNone == [k |-> "NoneType", n |-> 0, s |-> <<>>]
PyInt(i) == [k |-> "int", n |-> i, s |-> <<>>]
PyStr(chars) == [k |-> "str", n |-> 0, s |-> chars]
PyBool(b) == [k |-> "bool", n |-> IF b THEN 1 ELSE 0, s |-> <<>>]
\* A value that is neither a number nor a string, e.g. the list [1]:
\* int() of it raises TypeError.
PyList == [k |-> "list", n |-> 1, s |-> <<>>]

\* A raised exception, as the outcome of a call.
Raise(exc) == [k |-> "raise", n |-> 0, s |-> exc]
ValueError == Raise("ValueError")
AttributeError == Raise("AttributeError")
IsRaise(v) == v.k = "raise"

\* bool(v): the truth value Python gives to "not v", "if v", "v and ...".
Truthy(v) ==
    CASE v.k = "NoneType" -> FALSE
      [] v.k = "int" -> v.n # 0
      [] v.k = "bool" -> v.n # 0
      [] v.k = "str" -> v.s # <<>>
      [] v.k = "list" -> TRUE
      [] OTHER -> TRUE

\* isinstance(v, int): bool is a subclass of int.
IsInt(v) == v.k \in {"int", "bool"}

(***************************************************************************)
(* str methods.                                                             *)
(***************************************************************************)
Digits == <<"0", "1", "2", "3", "4", "5", "6", "7", "8", "9">>
Upper == <<"A", "B", "C", "D", "E", "F", "G", "H", "I", "J", "K", "L", "M",
           "N", "O", "P", "Q", "R", "S", "T", "U", "V", "W", "X", "Y", "Z">>
Lower == <<"a", "b", "c", "d", "e", "f", "g", "h", "i", "j", "k", "l", "m",
           "n", "o", "p", "q", "r", "s", "t", "u", "v", "w", "x", "y", "z">>
Whitespace == {" "}

IsDigit(c) == \E i \in 1..Len(Digits) : Digits[i] = c
DigitVal(c) == (CHOOSE i \in 1..Len(Digits) : Digits[i] = c) - 1

\* The least index of s holding c, or 0.
Find(s, c) ==
    IF \E i \in 1..Len(s) : s[i] = c
    THEN CHOOSE i \in 1..Len(s) : s[i] = c /\ \A j \in 1..(i - 1) : s[j] # c
    ELSE 0

\* The greatest index of s holding c, or 0.
RFind(s, c) ==
    IF \E i \in 1..Len(s) : s[i] = c
    THEN CHOOSE i \in 1..Len(s) : s[i] = c /\ \A j \in (i + 1)..Len(s) : s[j] # c
    ELSE 0

\* s.partition(sep) for a one-character sep: <<head, sep, tail>> split at the
\* first sep, or <<s, "", "">> when s has none.
partition(s, sep) ==
    LET i == Find(s, sep)
    IN  IF i = 0 THEN <<s, <<>>, <<>>>>
        ELSE <<SubSeq(s, 1, i - 1), <<sep>>, SubSeq(s, i + 1, Len(s))>>

\* s.rpartition(sep): split at the last sep, or <<"", "", s>>.
rpartition(s, sep) ==
    LET i == RFind(s, sep)
    IN  IF i = 0 THEN <<<<>>, <<>>, s>>
        ELSE <<SubSeq(s, 1, i - 1), <<sep>>, SubSeq(s, i + 1, Len(s))>>

\* s.startswith(prefix)
startswith(s, prefix) ==
    /\ Len(prefix) <= Len(s)
    /\ SubSeq(s, 1, Len(prefix)) = prefix

LowerChar(c) ==
    IF \E i \in 1..Len(Upper) : Upper[i] = c
    THEN Lower[CHOOSE i \in 1..Len(Upper) : Upper[i] = c]
    ELSE c

\* s.lower()
lower(s) == [i \in 1..Len(s) |-> LowerChar(s[i])]

\* s.strip(), as int() applies it to its argument.
RECURSIVE lstrip(_)
lstrip(s) ==
    IF s # <<>> /\ Head(s) \in Whitespace THEN lstrip(Tail(s)) ELSE s

RECURSIVE rstrip(_)
rstrip(s) ==
    IF s # <<>> /\ s[Len(s)] \in Whitespace
    THEN rstrip(SubSeq(s, 1, Len(s) - 1))
    ELSE s

strip(s) == rstrip(lstrip(s))

\* The value of a sequence of decimal digits.
RECURSIVE DigitsValue(_)
DigitsValue(s) ==
    IF s = <<>> THEN 0
    ELSE 10 * DigitsValue(SubSeq(s, 1, Len(s) - 1)) + DigitVal(s[Len(s)])

\* int(s) for a str s, base 10: surrounding whitespace is skipped, one sign
\* is allowed, at least one digit must follow and nothing else.  The result
\* is PyInt(n), or ValueError (invalid literal).
int_of_str(s) ==
    LET t == strip(s)
        signed == t # <<>> /\ t[1] \in {"+", "-"}
        body == IF signed THEN Tail(t) ELSE t
    IN  IF body = <<>> \/ \E i \in 1..Len(body) : ~IsDigit(body[i])
        THEN ValueError
        ELSE IF signed /\ t[1] = "-" THEN PyInt(0 - DigitsValue(body))
             ELSE PyInt(DigitsValue(body))

\* str(n) / "{}".format(n) for an int n.
RECURSIVE NatToStr(_)
NatToStr(n) ==
    IF n < 10 THEN <<Digits[n + 1]>>
    ELSE NatToStr(n \div 10) \o <<Digits[(n % 10) + 1]>>

IntToStr(n) == IF n < 0 THEN <<"-">> \o NatToStr(0 - n) ELSE NatToStr(n)

\* "{}".format(v) for the values a VersionNumber field can hold.
Format(v) ==
    CASE v.k = "int" -> IntToStr(v.n)
      [] v.k = "str" -> v.s
      [] v.k = "NoneType" -> <<"N", "o", "n", "e">>
      [] OTHER -> <<"?">>

(***************************************************************************)
(* version.py: module constants and helpers.                                *)
(***************************************************************************)
WILDCARD == PyStr(<<"x">>)

RELEASE_ALPHA == <<"a", "l", "p", "h", "a">>
RELEASE_BETA == <<"b", "e", "t", "a">>
RELEASE_CANDIDATE == <<"r", "c">>
RELEASE_FINAL == <<"f", "i", "n", "a", "l">>

\* _releaselevel_matches(level, candidates): level is a str (chars) here;
\* candidates is a sequence of kinds.  The first kind that prefixes level
\* decides.
RECURSIVE _releaselevel_matches(_, _)
_releaselevel_matches(level, candidates) ==
    IF candidates = <<>> THEN FALSE
    ELSE LET kind == Head(candidates)
         IN  IF startswith(level, kind)
             THEN LET num == int_of_str(SubSeq(level, Len(kind) + 1, Len(level)))
                  IN  IF IsRaise(num) THEN FALSE
                      ELSE IF num.n < 1 THEN FALSE
                      ELSE TRUE
             ELSE _releaselevel_matches(level, Tail(candidates))

\* _is_dev_releaselevel(level), level a Python value.
_is_dev_releaselevel(level) ==
    IF level.k # "str" THEN FALSE
    ELSE _releaselevel_matches(level.s,
            <<RELEASE_ALPHA, RELEASE_BETA, RELEASE_CANDIDATE>>)

_is_valid_releaselevel(level) ==
    IF ~Truthy(level) \/ level = PyStr(RELEASE_FINAL) THEN TRUE
    ELSE _is_dev_releaselevel(level)

_is_valid_series(series) == TRUE

_is_valid_arch(arch) == TRUE

\* _parse_number(raw): None, WILDCARD, an int, raw itself (int(raw) raised
\* TypeError, the only exception the except clause catches), or ValueError
\* raised by int(raw) and not caught.
_parse_number(raw) ==
    IF raw = PyNone \/ raw = PyStr(<<>>) THEN PyNone
    ELSE IF raw \in {PyStr(<<"x">>), PyStr(<<"X">>), PyStr(<<"*">>)} THEN WILDCARD
    ELSE CASE raw.k = "int" -> raw
           [] raw.k = "bool" -> PyInt(raw.n)
           [] raw.k = "str" -> int_of_str(raw.s)
           [] OTHER -> raw

(***************************************************************************)
(* _utils.py: the namedtuple mixin.                                         *)
(***************************************************************************)
\* self._asdict() updated with one keyword, as NamedTuple._replace builds
\* the arguments it passes to type(self)(**kwargs).
Updated(self, name, value) ==
    [f \in {"major", "minor", "micro"} |-> IF f = name THEN value ELSE self[f]]

(***************************************************************************)
(* version.py: class VersionNumber.                                         *)
(***************************************************************************)
\* VersionNumber._validate without its last check, the all-zero one.
VersionNumber__validate_no_zero_check(self) ==
    IF self.major = WILDCARD THEN ValueError
    ELSE IF ~IsInt(self.major) \/ self.major.n < 0 THEN ValueError
    ELSE IF self.minor = WILDCARD /\ self.micro # PyNone THEN ValueError
    ELSE IF self.minor # WILDCARD /\ (~IsInt(self.minor) \/ self.minor.n < 0)
         THEN ValueError
    ELSE IF /\ self.micro # PyNone
            /\ self.micro # WILDCARD
            /\ (~IsInt(self.micro) \/ self.micro.n < 0)
         THEN ValueError
    ELSE PyNone

\* VersionNumber._validate(self): PyNone when it returns, ValueError when it
\* raises.
VersionNumber__validate(self) ==
    IF self.major = WILDCARD THEN ValueError
    ELSE IF ~IsInt(self.major) \/ self.major.n < 0 THEN ValueError
    ELSE IF self.minor = WILDCARD /\ self.micro # PyNone THEN ValueError
    ELSE IF self.minor # WILDCARD /\ (~IsInt(self.minor) \/ self.minor.n < 0)
         THEN ValueError
    ELSE IF /\ self.micro # PyNone
            /\ self.micro # WILDCARD
            /\ (~IsInt(self.micro) \/ self.micro.n < 0)
         THEN ValueError
    ELSE IF ~Truthy(self.major) /\ ~Truthy(self.minor) /\ ~Truthy(self.micro)
         THEN ValueError
    ELSE PyNone

\* VersionNumber(major, minor, micro): __new__ converts the three fields
\* with _parse_number, __init__ validates.  The new object, or the exception.
VersionNumber(major, minor, micro) ==
    LET ma == _parse_number(major)
        mi == _parse_number(minor)
        mc == _parse_number(micro)
        self == [k |-> "VersionNumber", major |-> ma, minor |-> mi, micro |-> mc]
    IN  IF IsRaise(ma) THEN ma
        ELSE IF IsRaise(mi) THEN mi
        ELSE IF IsRaise(mc) THEN mc
        ELSE IF IsRaise(VersionNumber__validate(self)) THEN ValueError
        ELSE self

\* NamedTuple._replace(self, name=value) on a VersionNumber: a new object is
\* constructed, and validated, from the updated fields.
NamedTuple__replace(self, name, value) ==
    LET kwargs == Updated(self, name, value)
    IN  VersionNumber(kwargs.major, kwargs.minor, kwargs.micro)

\* VersionNumber.parse without the "missing micro" check: '1.2.' is read as
\* '1.2'.
VersionNumber_parse_no_micro_check(raw) ==
    LET p1 == partition(raw, ".")
        p2 == partition(p1[3], ".")
    IN  VersionNumber(PyStr(p1[1]), PyStr(p2[1]), PyStr(p2[3]))

\* VersionNumber.parse(raw), raw the characters of a str.
VersionNumber_parse(raw) ==
    LET p1 == partition(raw, ".")
        major == p1[1]
        p2 == partition(p1[3], ".")
        minor == p2[1]
        sep == p2[2]
        micro == p2[3]
    IN  IF sep # <<>> /\ micro = <<>> THEN ValueError
        ELSE VersionNumber(PyStr(major), PyStr(minor), PyStr(micro))

\* VersionNumber.__str__ testing "not self.micro" where the code tests
\* "self.micro is None": a micro of 0 is dropped too.
VersionNumber___str___falsy_micro(self) ==
    IF ~Truthy(self.micro)
    THEN Format(self.major) \o <<".">> \o Format(self.minor)
    ELSE Format(self.major) \o <<".">> \o Format(self.minor)
             \o <<".">> \o Format(self.micro)

\* VersionNumber.__str__(self): the characters of the str.
VersionNumber___str__(self) ==
    IF self.micro = PyNone
    THEN Format(self.major) \o <<".">> \o Format(self.minor)
    ELSE Format(self.major) \o <<".">> \o Format(self.minor)
             \o <<".">> \o Format(self.micro)

\* VersionNumber.iswildcard
VersionNumber_iswildcard(self) ==
    IF self.minor = WILDCARD THEN TRUE
    ELSE IF self.micro = PyNone \/ self.micro = WILDCARD THEN TRUE
    ELSE FALSE

\* VersionNumber._apply substituting the candidate's micro also when it is
\* the candidate's micro that is unset or the wildcard.
VersionNumber__apply_either_wildcard(self, version) ==
    LET applied1 == IF self.minor = WILDCARD
                    THEN NamedTuple__replace(self, "minor", version.minor)
                    ELSE self
    IN  IF IsRaise(applied1) THEN applied1
        ELSE IF \/ applied1.micro = PyNone
                \/ applied1.micro = WILDCARD
                \/ (applied1.minor # WILDCARD /\ version.micro = PyNone)
                \/ (applied1.minor # WILDCARD /\ version.micro = WILDCARD)
             THEN NamedTuple__replace(applied1, "micro", version.micro)
             ELSE applied1

\* VersionNumber._apply substituting the candidate's minor for the micro
\* (micro=version.minor).
VersionNumber__apply_micro_from_minor(self, version) ==
    LET applied1 == IF self.minor = WILDCARD
                    THEN NamedTuple__replace(self, "minor", version.minor)
                    ELSE self
    IN  IF IsRaise(applied1) THEN applied1
        ELSE IF applied1.micro = PyNone \/ applied1.micro = WILDCARD
             THEN NamedTuple__replace(applied1, "micro", version.minor)
             ELSE applied1

\* VersionNumber._apply(self, version): the object, or the exception that a
\* _replace raised.
VersionNumber__apply(self, version) ==
    LET applied1 == IF self.minor = WILDCARD
                    THEN NamedTuple__replace(self, "minor", version.minor)
                    ELSE self
    IN  IF IsRaise(applied1) THEN applied1
        ELSE IF applied1.micro = PyNone \/ applied1.micro = WILDCARD
             THEN NamedTuple__replace(applied1, "micro", version.micro)
             ELSE applied1

\* VersionNumber.match(self, version): PyBool, or the exception raised.
\* version is a VersionNumber object or a str to parse.
VersionNumber_match(self, version) ==
    LET candidate == IF version.k # "VersionNumber"
                     THEN VersionNumber_parse(version.s)
                     ELSE version
    IN  IF IsRaise(candidate) THEN candidate
        ELSE LET expected == VersionNumber__apply(self, candidate)
             IN  IF IsRaise(expected) THEN expected
                 ELSE PyBool(candidate = expected)

(***************************************************************************)
(* version.py: class Version.                                               *)
(***************************************************************************)
\* Version._validate without the wildcard check on the number.
Version__validate_no_wildcard_check(self) ==
    IF ~Truthy(self.number) THEN ValueError
    ELSE IF ~Truthy(self.releaselevel) THEN ValueError
    ELSE IF ~_is_valid_releaselevel(self.releaselevel) THEN ValueError
    ELSE IF Truthy(self.series) /\ ~Truthy(self.arch) THEN ValueError
    ELSE IF Truthy(self.arch) /\ ~Truthy(self.series) THEN ValueError
    ELSE PyNone

\* Version._validate(self): PyNone when it returns, ValueError when it raises.
Version__validate(self) ==
    IF ~Truthy(self.number) THEN ValueError
    ELSE IF VersionNumber_iswildcard(self.number) THEN ValueError
    ELSE IF ~Truthy(self.releaselevel) THEN ValueError
    ELSE IF ~_is_valid_releaselevel(self.releaselevel) THEN ValueError
    ELSE IF Truthy(self.series) /\ ~_is_valid_series(self.series) THEN ValueError
    ELSE IF Truthy(self.arch) /\ ~_is_valid_arch(self.arch) THEN ValueError
    ELSE IF Truthy(self.series) /\ ~Truthy(self.arch) THEN ValueError
    ELSE IF Truthy(self.arch) /\ ~Truthy(self.series) THEN ValueError
    ELSE PyNone

\* Version(number, releaselevel, series, arch): __new__ normalises the
\* arguments, __init__ validates.  The new object, or the exception.
Version(number, releaselevel, series, arch) ==
    LET num == IF Truthy(number) /\ number.k # "VersionNumber"
               THEN IF number.k = "str" THEN VersionNumber_parse(number.s)
                    ELSE AttributeError
               ELSE number
        level == IF Truthy(releaselevel)
                 THEN IF releaselevel.k = "str" THEN PyStr(lower(releaselevel.s))
                      ELSE AttributeError
                 ELSE PyStr(RELEASE_FINAL)
        ser == IF Truthy(series) THEN PyStr(lower(Format(series))) ELSE PyNone
        ar == IF Truthy(arch) THEN PyStr(lower(Format(arch))) ELSE PyNone
        self == [k |-> "Version", number |-> num, releaselevel |-> level,
                 series |-> ser, arch |-> ar]
    IN  IF IsRaise(num) THEN num
        ELSE IF IsRaise(level) THEN level
        ELSE IF IsRaise(Version__validate(self)) THEN ValueError
        ELSE self

\* Version.parse without the reinterpretation of two trailing tokens: the
\* first stays the releaselevel and the second becomes the series.
Version_parse_no_reinterpretation(raw) ==
    LET p1 == partition(raw, "-")
        num == VersionNumber_parse(p1[1])
        p2 == partition(p1[3], "-")
        p3 == partition(p2[3], "-")
        level == PyStr(p2[1])
        series == IF p2[2] = <<>> THEN PyNone ELSE PyStr(p3[1])
        arch == IF p2[2] = <<>> THEN PyNone ELSE PyStr(p3[3])
    IN  IF IsRaise(num) THEN num
        ELSE IF p1[2] = <<>> THEN Version(num, PyNone, PyNone, PyNone)
        ELSE LET forced == IF num.micro = PyNone /\ _is_dev_releaselevel(level)
                           THEN NamedTuple__replace(num, "micro", PyInt(0))
                           ELSE num
             IN  IF IsRaise(forced) THEN forced
                 ELSE Version(forced, level, series, arch)

\* Version.parse without the post-processing that forces an unset micro to 0
\* under a dev tag.
Version_parse_no_forced_micro(raw) ==
    LET p1 == partition(raw, "-")
        num == VersionNumber_parse(p1[1])
        p2 == partition(p1[3], "-")
        p3 == partition(p2[3], "-")
        level == IF p2[2] # <<>> /\ p3[2] = <<>>
                 THEN PyStr(RELEASE_FINAL) ELSE PyStr(p2[1])
        series == IF p2[2] = <<>> THEN PyNone
                  ELSE IF p3[2] = <<>> THEN PyStr(p2[1]) ELSE PyStr(p3[1])
        arch == IF p2[2] = <<>> THEN PyNone
                ELSE IF p3[2] = <<>> THEN PyStr(p3[1]) ELSE PyStr(p3[3])
    IN  IF IsRaise(num) THEN num
        ELSE IF p1[2] = <<>> THEN Version(num, PyNone, PyNone, PyNone)
        ELSE Version(num, level, series, arch)

\* Version.parse(raw), raw the characters of a str.
Version_parse(raw) ==
    LET p1 == partition(raw, "-")
        num == VersionNumber_parse(p1[1])
        p2 == partition(p1[3], "-")
        p3 == partition(p2[3], "-")
        \* level, series, arch after the "if sep:" block
        level == IF p2[2] # <<>> /\ p3[2] = <<>>
                 THEN PyStr(RELEASE_FINAL) ELSE PyStr(p2[1])
        series == IF p2[2] = <<>> THEN PyNone
                  ELSE IF p3[2] = <<>> THEN PyStr(p2[1]) ELSE PyStr(p3[1])
        arch == IF p2[2] = <<>> THEN PyNone
                ELSE IF p3[2] = <<>> THEN PyStr(p3[1]) ELSE PyStr(p3[3])
    IN  IF IsRaise(num) THEN num
        ELSE IF p1[2] = <<>> THEN Version(num, PyNone, PyNone, PyNone)
        ELSE LET forced == IF num.micro = PyNone /\ _is_dev_releaselevel(level)
                           THEN NamedTuple__replace(num, "micro", PyInt(0))
                           ELSE num
             IN  IF IsRaise(forced) THEN forced
                 ELSE Version(forced, level, series, arch)

\* Version.__str__ dropping a 0 micro whatever the releaselevel, final
\* included.
Version___str___always_drop(self) ==
    LET ver0 == IF self.number.micro = PyInt(0)
                THEN rpartition(VersionNumber___str__(self.number), ".")[1]
                ELSE VersionNumber___str__(self.number)
        ver1 == IF self.releaselevel # PyStr(RELEASE_FINAL)
                THEN ver0 \o <<"-">> \o self.releaselevel.s
                ELSE ver0
        ver2 == IF Truthy(self.series) THEN ver1 \o <<"-">> \o self.series.s
                ELSE ver1
    IN  IF Truthy(self.arch) THEN ver2 \o <<"-">> \o self.arch.s ELSE ver2

\* Version.__str__(self): the characters of the str.
Version___str__(self) ==
    LET ver0 == VersionNumber___str__(self.number)
        ver1 == IF self.releaselevel # PyStr(RELEASE_FINAL)
                THEN (IF self.number.micro = PyInt(0)
                      THEN rpartition(ver0, ".")[1] ELSE ver0)
                         \o <<"-">> \o self.releaselevel.s
                ELSE ver0
        ver2 == IF Truthy(self.series) THEN ver1 \o <<"-">> \o self.series.s
                ELSE ver1
    IN  IF Truthy(self.arch) THEN ver2 \o <<"-">> \o self.arch.s ELSE ver2

(***************************************************************************)
(* The inputs the callers pass.                                             *)
(***************************************************************************)
\* The component values: 0..MaxNum and the two-digit BigNum.
Nums == (0..MaxNum) \cup {BigNum}

\* Join the tokens of a sequence with a separator character.
RECURSIVE Join(_, _)
Join(tokens, sep) ==
    IF Len(tokens) = 0 THEN <<>>
    ELSE IF Len(tokens) = 1 THEN tokens[1]
    ELSE tokens[1] \o <<sep>> \o Join(Tail(tokens), sep)

\* Tokens between the dots of a version number text: numbers, the three
\* wildcard spellings, and malformed ones (empty, negative, padded with
\* whitespace, not a number).
NumTokens ==
    {IntToStr(n) : n \in Nums}
        \cup {<<>>, <<"x">>, <<"X">>, <<"*">>, <<"-", "1">>, <<" ", "1">>,
              <<"1", " ">>, <<"x", " ">>, <<"X", "X", "X">>}

\* The texts given to VersionNumber.parse: one to three tokens joined by
\* dots, and two texts with a third dot.
NumberTexts ==
    {Join(<<a>>, ".") : a \in NumTokens}
        \cup {Join(<<a, b>>, ".") : a \in NumTokens, b \in NumTokens}
        \cup {Join(<<a, b, c>>, ".") :
                a \in NumTokens, b \in NumTokens, c \in NumTokens}
        \cup {<<"1", ".", "2", ".", "3", ".", "4">>,
              <<"1", ".", "2", ".", "3", ".">>}

\* The arguments given to VersionNumber(major, minor, micro).
RawArgs ==
    {PyNone, PyList, PyInt(0 - 1)}
        \cup {PyInt(n) : n \in Nums}
        \cup {PyStr(<<>>), PyStr(<<"x">>), PyStr(<<"X">>), PyStr(<<"*">>),
              PyStr(<<"1">>), PyStr(<<" ", "2">>), PyStr(<<"X", "X", "X">>)}

\* Every valid VersionNumber over Nums: the patterns and the candidates.
FieldValues == {PyNone, WILDCARD} \cup {PyInt(n) : n \in Nums}

VersionNumbers ==
    {v \in {VersionNumber(a, b, c) :
                a \in FieldValues, b \in FieldValues, c \in FieldValues} :
        ~IsRaise(v)}

\* Release levels: the dev tags over 1..MaxNum and BigNum, and the rest.
DevTags ==
    {kind \o IntToStr(n) :
        kind \in {RELEASE_ALPHA, RELEASE_BETA, RELEASE_CANDIDATE},
        n \in Nums \ {0}}

Xenial == <<"x", "e", "n", "i", "a", "l">>
Amd64 == <<"a", "m", "d", "6", "4">>

LevelTokens ==
    DevTags \cup {<<>>, RELEASE_FINAL, <<"F", "I", "N", "A", "L">>,
                  <<"B", "E", "T", "A", "2">>, <<"b", "e", "t", "a", "0">>,
                  RELEASE_BETA, <<"b", "e", "t", "a", "-", "1">>,
                  <<"c", "a", "n", "a", "r", "y", "1">>, Xenial}

\* The releaselevel arguments given to Version(...).
Levels ==
    {PyNone, PyInt(3), PyStr(<<>>), PyStr(RELEASE_FINAL),
     PyStr(<<"F", "I", "N", "A", "L">>),
     PyStr(RELEASE_BETA \o IntToStr(MaxNum)),
     PyStr(<<"B", "E", "T", "A">> \o IntToStr(MaxNum)),
     PyStr(RELEASE_CANDIDATE \o IntToStr(BigNum)),
     PyStr(RELEASE_ALPHA \o <<"1">>),
     PyStr(<<"b", "e", "t", "a", "0">>),
     PyStr(<<"c", "a", "n", "a", "r", "y", "1">>)}

\* The series and arch arguments given to Version(...).
Labels ==
    {PyNone, PyStr(<<>>), PyStr(Xenial), PyStr(<<"A", "M", "D", "6", "4">>),
     PyStr(<<"a", "-", "b">>)}

\* The number arguments given to Version(...) that are not VersionNumber
\* objects.
RawNumbers ==
    {PyNone, PyInt(0), PyInt(5), PyStr(<<>>), PyStr(<<"1", ".", "2", ".", "3">>),
     PyStr(<<"1", ".", "2">>), PyStr(<<"1", ".", "2", ".", "x">>),
     PyStr(<<"1", ".", "2", ".", "0">>), PyStr(<<"1">>)}

\* The number segments of the texts given to Version.parse: every valid
\* VersionNumber over {0, MaxNum} rendered, one with BigNum, malformed ones.
SegmentTexts ==
    {VersionNumber___str__(v) :
        v \in {w \in VersionNumbers :
                 \A f \in {"major", "minor", "micro"} :
                    w[f].k = "int" => w[f].n \in {0, MaxNum}}}
        \cup {IntToStr(BigNum) \o <<".">> \o IntToStr(BigNum),
              <<"0", ".", "0">>, <<"0", ".", "0", ".", "0">>, <<"1">>, <<>>,
              <<"1", ".", "2", ".">>}

\* The dash-separated tokens after the number segment.
SeriesTokens == {<<>>, Xenial, <<"r", "c", "1">>}
ArchTokens == {<<>>, Amd64, <<"A", "M", "D", "6", "4">>}

Suffixes ==
    {<<>>}
        \cup {<<l>> : l \in LevelTokens}
        \cup {<<a, b>> : a \in LevelTokens, b \in ArchTokens}
        \cup {<<l, s, a>> : l \in LevelTokens, s \in SeriesTokens, a \in ArchTokens}
        \cup {<<l, Xenial, <<"a">>, <<"b">>>> : l \in {RELEASE_FINAL, Xenial}}

\* The texts given to Version.parse.
VersionTexts == {Join(<<n>> \o suffix, "-") : n \in SegmentTexts, suffix \in Suffixes}

(***************************************************************************)
(* The state machine: a caller constructs one object, by the constructor or *)
(* by parse, and then uses it.  call is the last call made, numberObj and   *)
(* versionObj the outcome of the construction (the object or the exception  *)
(* raised), result the value the last method call returned.                 *)
(***************************************************************************)
Call(fn, args) == [fn |-> fn, args |-> args]

Init ==
    /\ call = Call("import", <<>>)
    /\ numberObj = PyNone
    /\ versionObj = PyNone
    /\ result = PyNone

HasNumber ==
    /\ call.fn \in {"VersionNumber", "VersionNumber.parse"}
    /\ numberObj.k = "VersionNumber"

HasVersion ==
    /\ call.fn \in {"Version", "Version.parse"}
    /\ versionObj.k = "Version"

\* VersionNumber(major, minor, micro)
NewVersionNumber ==
    /\ call.fn = "import"
    /\ \E major \in RawArgs, minor \in RawArgs, micro \in RawArgs :
          /\ call' = Call("VersionNumber", <<major, minor, micro>>)
          /\ numberObj' = VersionNumber(major, minor, micro)
    /\ UNCHANGED <<versionObj, result>>

\* VersionNumber.parse(raw)
ParseVersionNumber ==
    /\ call.fn = "import"
    /\ \E raw \in NumberTexts :
          /\ call' = Call("VersionNumber.parse", <<PyStr(raw)>>)
          /\ numberObj' = VersionNumber_parse(raw)
    /\ UNCHANGED <<versionObj, result>>

\* str(number)
StrVersionNumber ==
    /\ HasNumber
    /\ call' = Call("VersionNumber.__str__", <<>>)
    /\ result' = PyStr(VersionNumber___str__(numberObj))
    /\ UNCHANGED <<numberObj, versionObj>>

\* number.match(candidate)
MatchVersionNumber ==
    /\ HasNumber
    /\ \E candidate \in VersionNumbers :
          /\ call' = Call("VersionNumber.match", <<candidate>>)
          /\ result' = VersionNumber_match(numberObj, candidate)
    /\ UNCHANGED <<numberObj, versionObj>>

\* Version(number, releaselevel, series, arch), number being the
\* VersionNumber in hand or, from the start, something else.
NewVersion ==
    /\ HasNumber \/ call.fn = "import"
    /\ \E num \in (IF HasNumber THEN {numberObj} ELSE RawNumbers),
          releaselevel \in Levels, series \in Labels, arch \in Labels :
          /\ call' = Call("Version", <<num, releaselevel, series, arch>>)
          /\ versionObj' = Version(num, releaselevel, series, arch)
    /\ UNCHANGED <<numberObj, result>>

\* Version.parse(raw)
ParseVersion ==
    /\ call.fn = "import"
    /\ \E raw \in VersionTexts :
          /\ call' = Call("Version.parse", <<PyStr(raw)>>)
          /\ versionObj' = Version_parse(raw)
    /\ UNCHANGED <<numberObj, result>>

\* str(version)
StrVersion ==
    /\ HasVersion
    /\ call' = Call("Version.__str__", <<>>)
    /\ result' = PyStr(Version___str__(versionObj))
    /\ UNCHANGED <<numberObj, versionObj>>

Next ==
    \/ NewVersionNumber
    \/ ParseVersionNumber
    \/ StrVersionNumber
    \/ MatchVersionNumber
    \/ NewVersion
    \/ ParseVersion
    \/ StrVersion

Spec == Init /\ [][Next]_vars

(***************************************************************************)
(* Vocabulary of the properties.  These definitions restate what the        *)
(* specification says in its own terms (tokens counted by splitting on the  *)
(* separator, fields compared one by one); they do not call the parsers.    *)
(***************************************************************************)
\* s.split(sep): every token between the separators, empty ones included.
RECURSIVE Split(_, _)
Split(s, sep) ==
    IF s = <<>> THEN <<<<>>>>
    ELSE LET rest == Split(Tail(s), sep)
         IN  IF Head(s) = sep THEN <<<<>>>> \o rest
             ELSE <<<<Head(s)>> \o rest[1]>> \o Tail(rest)

\* The text that the last parse call was given.
Text == call.args[1].s

IsNonNegInt(v) == v.k = "int" /\ v.n >= 0

\* A dev tag: alpha, beta or rc followed by a suffix that reads as an
\* integer >= 1.
IsDevTag(s) ==
    \E kind \in {RELEASE_ALPHA, RELEASE_BETA, RELEASE_CANDIDATE} :
        /\ Len(s) > Len(kind)
        /\ \A i \in 1..Len(kind) : s[i] = kind[i]
        /\ LET n == int_of_str(SubSeq(s, Len(kind) + 1, Len(s)))
           IN  n.k = "int" /\ n.n >= 1

\* A version number segment of the form 'major.minor', both decimal numbers.
IsMajorMinor(seg) ==
    LET parts == Split(seg, ".")
    IN  /\ Len(parts) = 2
        /\ \A i \in 1..2 :
              /\ parts[i] # <<>>
              /\ \A j \in 1..Len(parts[i]) : IsDigit(parts[i][j])

(***************************************************************************)
(* Properties.                                                              *)
(***************************************************************************)
\* C1: for every Version v that construction accepts (any non-wildcard
\* number, any valid releaselevel, any series and arch labels),
\* Version.parse(str(v)) succeeds and returns a value equal to v.
C1_VersionRoundTrip ==
    call.fn = "Version.__str__" => Version_parse(result.s) = versionObj

\* C2: for every valid VersionNumber v, with a wildcard minor, a wildcard
\* micro or an unset micro included, VersionNumber.parse(str(v)) succeeds and
\* equals v; str(v) has two dot-separated fields when the micro is unset and
\* three otherwise, a wildcard field is the character x and a number field
\* reads as that number.
C2_NumberRoundTrip ==
    call.fn = "VersionNumber.__str__" =>
        LET fields == IF numberObj.micro = PyNone
                      THEN <<numberObj.major, numberObj.minor>>
                      ELSE <<numberObj.major, numberObj.minor, numberObj.micro>>
            parts == Split(result.s, ".")
        IN  /\ VersionNumber_parse(result.s) = numberObj
            /\ Len(parts) = Len(fields)
            /\ \A i \in 1..Len(fields) :
                  IF fields[i] = WILDCARD THEN parts[i] = <<"x">>
                  ELSE /\ \A j \in 1..Len(parts[i]) : IsDigit(parts[i][j])
                       /\ int_of_str(parts[i]) = fields[i]

\* C2 witness: a number with a two-digit major and a wildcard micro has been
\* rendered.
C2_Witness ==
    /\ call.fn = "VersionNumber.__str__"
    /\ numberObj.major = PyInt(BigNum)
    /\ numberObj.micro = WILDCARD

\* C3: for every valid pattern p and valid candidate c, p.match(c) is true
\* exactly when p.major equals c.major, p.minor is the wildcard or equals
\* c.minor, and p.micro is unset, the wildcard, or equals c.micro; it is
\* false otherwise.
C3_MatchRule ==
    call.fn = "VersionNumber.match" =>
        LET p == numberObj
            c == call.args[1]
        IN  result = PyBool(/\ p.major = c.major
                            /\ p.minor = WILDCARD \/ p.minor = c.minor
                            /\ \/ p.micro = PyNone
                               \/ p.micro = WILDCARD
                               \/ p.micro = c.micro)

\* C4: Version.parse resolves the dash-separated tokens after the number by
\* their count.  None: Version(number), releaselevel final, no series, no
\* arch.  One: the token is the releaselevel and never a series, so the parse
\* succeeds only if the token is final or a dev tag (as the constructor reads
\* it, lower-cased); an empty token ('1.2.3-') gives what no token gives.
\* Two, A-B: releaselevel final, series A, arch B.  Three, L-S-A: releaselevel
\* L, series S, arch A (an empty token standing for an absent value).  The
\* number's unset micro is forced to 0 when the resolved releaselevel is a
\* dev tag.
C4_TokensByCount ==
    call.fn = "Version.parse" =>
        LET toks == Split(Text, "-")
            T == Tail(toks)
            num == VersionNumber_parse(toks[1])
            Forced(level) ==
                IF ~IsRaise(num) /\ num.micro = PyNone /\ IsDevTag(level)
                THEN NamedTuple__replace(num, "micro", PyInt(0))
                ELSE num
            Built(n, l, s, a) == IF IsRaise(n) THEN n ELSE Version(n, l, s, a)
            ok == versionObj.k = "Version"
            Level(tok) == IF tok = <<>> THEN PyStr(RELEASE_FINAL)
                          ELSE PyStr(lower(tok))
            Label(tok) == IF tok = <<>> THEN PyNone ELSE PyStr(lower(tok))
        IN  CASE Len(T) = 0 ->
                    /\ versionObj = Built(num, PyNone, PyNone, PyNone)
                    /\ ok => /\ versionObj.releaselevel = PyStr(RELEASE_FINAL)
                             /\ versionObj.series = PyNone
                             /\ versionObj.arch = PyNone
              [] Len(T) = 1 ->
                    /\ versionObj = Built(Forced(T[1]), PyStr(T[1]), PyNone, PyNone)
                    /\ T[1] = <<>> => versionObj = Built(num, PyNone, PyNone, PyNone)
                    /\ ok => /\ versionObj.releaselevel = Level(T[1])
                             /\ versionObj.series = PyNone
                             /\ versionObj.arch = PyNone
                             /\ \/ T[1] = <<>>
                                \/ lower(T[1]) = RELEASE_FINAL
                                \/ IsDevTag(lower(T[1]))
              [] Len(T) = 2 ->
                    /\ versionObj = Built(num, PyStr(RELEASE_FINAL),
                                          PyStr(T[1]), PyStr(T[2]))
                    /\ ok => /\ versionObj.releaselevel = PyStr(RELEASE_FINAL)
                             /\ versionObj.series = Label(T[1])
                             /\ versionObj.arch = Label(T[2])
              [] Len(T) = 3 ->
                    /\ versionObj = Built(Forced(T[1]), PyStr(T[1]),
                                          PyStr(T[2]), PyStr(T[3]))
                    /\ ok => /\ versionObj.releaselevel = Level(T[1])
                             /\ versionObj.series = Label(T[2])
                             /\ versionObj.arch = Label(T[3])
              [] OTHER -> TRUE

\* C4 witness: 'M.m.c-rc1-amd64' has been parsed: of two tokens the first,
\* though it reads as a dev tag, is the series and the releaselevel is final.
C4_Witness ==
    /\ call.fn = "Version.parse"
    /\ Len(Split(Text, "-")) = 3
    /\ versionObj.k = "Version"
    /\ versionObj.releaselevel = PyStr(RELEASE_FINAL)
    /\ versionObj.series = PyStr(<<"r", "c", "1">>)
    /\ versionObj.arch = PyStr(Amd64)

\* C5: when the number segment is 'M.m' (no micro; M.m a valid number, not
\* 0.0) and the resolved releaselevel is a dev tag T, the micro is forced to
\* 0: Version.parse('M.m-T...') succeeds and equals
\* Version.parse('M.m.0-T...'), with or without a series-arch suffix.
C5_MicroForced ==
    LET toks == Split(Text, "-")
        parts == Split(toks[1], ".")
        full == Join(<<toks[1] \o <<".", "0">>>> \o Tail(toks), "-")
    IN  (/\ call.fn = "Version.parse"
         /\ IsMajorMinor(toks[1])
         /\ Len(toks) \in {2, 4}
         /\ IsDevTag(toks[2])) =>
            /\ versionObj = Version_parse(full)
            /\ (/\ int_of_str(parts[1]).n + int_of_str(parts[2]).n > 0
                /\ Len(toks) = 4 => toks[3] # <<>> /\ toks[4] # <<>>) =>
                    /\ versionObj.k = "Version"
                    /\ versionObj.number.micro = PyInt(0)
                    /\ versionObj.releaselevel = PyStr(toks[2])

\* C5 witness: 'M.m-T-xenial-amd64' with a dev tag T has been parsed into a
\* Version whose micro is 0.
C5_Witness ==
    /\ call.fn = "Version.parse"
    /\ IsMajorMinor(Split(Text, "-")[1])
    /\ Len(Split(Text, "-")) = 4
    /\ IsDevTag(Split(Text, "-")[2])
    /\ versionObj.k = "Version"
    /\ versionObj.number.micro = PyInt(0)
    /\ versionObj.series = PyStr(Xenial)

\* C6: VersionNumber(major, minor, micro) succeeds exactly when, the fields
\* read by the numeric token parser, major is a non-negative integer; minor
\* is a non-negative integer, or the wildcard with micro unset; micro is
\* unset, the wildcard or a non-negative integer; and it is not the case that
\* major = 0, minor = 0 and micro is 0 or unset.  It then returns the object
\* with these fields; in every other case it raises ValueError.
C6_ConstructionRule ==
    call.fn = "VersionNumber" =>
        LET major == _parse_number(call.args[1])
            minor == _parse_number(call.args[2])
            micro == _parse_number(call.args[3])
            accepted ==
                /\ IsNonNegInt(major)
                /\ IsNonNegInt(minor) \/ (minor = WILDCARD /\ micro = PyNone)
                /\ micro = PyNone \/ micro = WILDCARD \/ IsNonNegInt(micro)
                /\ ~(/\ major = PyInt(0)
                     /\ minor = PyInt(0)
                     /\ micro \in {PyInt(0), PyNone})
        IN  IF accepted
            THEN numberObj = [k |-> "VersionNumber", major |-> major,
                              minor |-> minor, micro |-> micro]
            ELSE numberObj = ValueError

\* C6 witness: VersionNumber(0, 0, 'x') has been constructed: major and minor
\* are 0 and the wildcard micro keeps it from being all-zero.
C6_Witness ==
    /\ call.fn = "VersionNumber"
    /\ numberObj.k = "VersionNumber"
    /\ numberObj.major = PyInt(0)
    /\ numberObj.minor = PyInt(0)
    /\ numberObj.micro = WILDCARD

\* C7: VersionNumber.parse(text) takes the part before the first '.' as
\* major, the part before the second '.' as minor and everything after it as
\* micro, and returns exactly what VersionNumber(major, minor, micro)
\* returns, x, X and * giving the same wildcard; it fails when text has no
\* '.', when major or minor is empty and when a second '.' is followed by
\* nothing, and 'major.minor' yields an unset micro.
C7_ParseRule ==
    call.fn = "VersionNumber.parse" =>
        LET parts == Split(Text, ".")
            major == parts[1]
            minor == parts[2]
            micro == Join(SubSeq(parts, 3, Len(parts)), ".")
            Same(tok) == IF tok \in {<<"X">>, <<"*">>} THEN <<"x">> ELSE tok
        IN  /\ Len(parts) = 1 => numberObj = ValueError
            /\ Len(parts) >= 2 /\ (major = <<>> \/ minor = <<>>) =>
                  numberObj = ValueError
            /\ Len(parts) >= 3 /\ micro = <<>> => numberObj = ValueError
            /\ Len(parts) = 2 =>
                  /\ numberObj = VersionNumber(PyStr(major), PyStr(minor), PyNone)
                  /\ numberObj.k = "VersionNumber" => numberObj.micro = PyNone
            /\ Len(parts) >= 3 /\ micro # <<>> =>
                  numberObj = VersionNumber(PyStr(major), PyStr(minor), PyStr(micro))
            /\ numberObj = VersionNumber_parse(
                              Join([i \in 1..Len(parts) |-> Same(parts[i])], "."))

\* C7 witness: '1.2.*' has been parsed into the number 1.2 with a wildcard
\* micro.
C7_Witness ==
    /\ call.fn = "VersionNumber.parse"
    /\ Text = <<"1", ".", "2", ".", "*">>
    /\ numberObj.k = "VersionNumber"
    /\ numberObj.micro = WILDCARD

\* C8: VersionNumber.parse trims surrounding whitespace: for every text t,
\* the parse of t padded with leading and/or trailing whitespace has the
\* outcome of the parse of t, for numeric and wildcard components alike.
C8_WhitespaceTrimmed ==
    call.fn = "VersionNumber.parse" =>
        \A left \in {<<>>, <<" ">>}, right \in {<<>>, <<" ">>} :
            VersionNumber_parse(left \o Text \o right) = numberObj

\* C9: every Version the constructor or Version.parse returns has a
\* non-wildcard VersionNumber (three concrete non-negative integers), a
\* releaselevel that is final or a lower-case dev tag, and series and arch
\* both present or both absent; an input that would violate this (a missing
\* or wildcard number, a releaselevel that is neither, series without arch,
\* arch without series, 'M.m', 'M.m-series-arch') raises instead.
C9_VersionInvariant ==
    call.fn \in {"Version", "Version.parse"} =>
        /\ versionObj.k \in {"Version", "raise"}
        /\ versionObj.k = "Version" =>
              /\ versionObj.number.k = "VersionNumber"
              /\ \A f \in {"major", "minor", "micro"} :
                    IsNonNegInt(versionObj.number[f])
              /\ versionObj.releaselevel.k = "str"
              /\ \/ versionObj.releaselevel.s = RELEASE_FINAL
                 \/ IsDevTag(versionObj.releaselevel.s)
              /\ \A f \in {"series", "arch"} :
                    \/ versionObj[f] = PyNone
                    \/ /\ versionObj[f].k = "str"
                       /\ versionObj[f].s # <<>>
                       /\ \A i \in 1..Len(versionObj[f].s) :
                             LowerChar(versionObj[f].s[i]) = versionObj[f].s[i]
              /\ (versionObj.series = PyNone) <=> (versionObj.arch = PyNone)
        /\ call.fn = "Version" =>
              LET num == call.args[1]
                  level == call.args[2]
                  series == call.args[3]
                  arch == call.args[4]
              IN  (\/ ~Truthy(num)
                   \/ /\ num.k = "VersionNumber"
                      /\ \/ num.minor = WILDCARD
                         \/ num.micro \in {WILDCARD, PyNone}
                   \/ /\ level.k = "str"
                      /\ level.s # <<>>
                      /\ lower(level.s) # RELEASE_FINAL
                      /\ ~IsDevTag(lower(level.s))
                   \/ Truthy(series) /\ ~Truthy(arch)
                   \/ Truthy(arch) /\ ~Truthy(series)) => IsRaise(versionObj)
        /\ call.fn = "Version.parse" =>
              LET toks == Split(Text, "-")
              IN  IsMajorMinor(toks[1]) /\ Len(toks) \in {1, 3} =>
                      IsRaise(versionObj)

\* C9 witness: the constructor, given an upper-case dev tag, series and arch,
\* has returned a Version with all of them lower-cased.
C9_Witness ==
    /\ call.fn = "Version"
    /\ call.args[2] = PyStr(<<"B", "E", "T", "A">> \o IntToStr(MaxNum))
    /\ call.args[4] = PyStr(<<"A", "M", "D", "6", "4">>)
    /\ versionObj.k = "Version"
    /\ versionObj.releaselevel = PyStr(RELEASE_BETA \o IntToStr(MaxNum))
    /\ versionObj.arch = PyStr(Amd64)

\* C10: str(version) is str(number), except that when releaselevel is not
\* final a micro equal to 0 is dropped ('major.minor') and '-' + releaselevel
\* is appended; then '-' + series and '-' + arch are appended when present.
\* With releaselevel final nothing is appended for it and a 0 micro is kept.
C10_StrRule ==
    call.fn = "Version.__str__" =>
        LET v == versionObj
            final == v.releaselevel = PyStr(RELEASE_FINAL)
            num == IF ~final /\ v.number.micro = PyInt(0)
                   THEN IntToStr(v.number.major.n) \o <<".">>
                            \o IntToStr(v.number.minor.n)
                   ELSE VersionNumber___str__(v.number)
            tokens == <<num>>
                        \o (IF final THEN <<>> ELSE <<v.releaselevel.s>>)
                        \o (IF v.series = PyNone THEN <<>> ELSE <<v.series.s>>)
                        \o (IF v.arch = PyNone THEN <<>> ELSE <<v.arch.s>>)
        IN  result = PyStr(Join(tokens, "-"))

\* C10 witness: a dev version with micro 0, series and arch has been rendered.
C10_Witness ==
    /\ call.fn = "Version.__str__"
    /\ versionObj.releaselevel # PyStr(RELEASE_FINAL)
    /\ versionObj.number.micro = PyInt(0)
    /\ versionObj.series = PyStr(Xenial)
    /\ versionObj.arch = PyStr(Amd64)

\* C11: for every valid VersionNumber v, wildcard or not, v.match(v) returns
\* true.
C11_MatchIdentity ==
    (call.fn = "VersionNumber.match" /\ call.args[1] = numberObj) =>
        result = PyBool(TRUE)

\* C11 witness: the pattern 0.x, whose substituted values come closest to
\* the all-zero number, has been matched against itself.
C11_Witness ==
    /\ call.fn = "VersionNumber.match"
    /\ call.args[1] = numberObj
    /\ numberObj.major = PyInt(0)
    /\ numberObj.minor = WILDCARD

\* C12: match is total on valid values: for any two valid VersionNumber
\* values p and c, p.match(c) completes and returns a boolean; every value
\* _apply derives from p passes validation, so match never raises.
C12_MatchTotal ==
    call.fn = "VersionNumber.match" => result \in {PyBool(TRUE), PyBool(FALSE)}

\* C13: match is transitive: for all valid VersionNumber values p, q and r,
\* if p.match(q) returns true and q.match(r) returns true then p.match(r)
\* returns true.
C13_MatchTransitive ==
    (call.fn = "VersionNumber.match" /\ result = PyBool(TRUE)) =>
        LET p == numberObj
            q == call.args[1]
        IN  \A r \in VersionNumbers :
                VersionNumber_match(q, r) = PyBool(TRUE) =>
                    VersionNumber_match(p, r) = PyBool(TRUE)

\* C13 witness: the pattern M.x has matched M.m.x, which in turn matches a
\* concrete M.m.c.
C13_Witness ==
    /\ call.fn = "VersionNumber.match"
    /\ result = PyBool(TRUE)
    /\ numberObj.minor = WILDCARD
    /\ call.args[1].minor # WILDCARD
    /\ call.args[1].micro = WILDCARD
    /\ \E r \in VersionNumbers :
          /\ r.micro \notin {WILDCARD, PyNone}
          /\ VersionNumber_match(call.args[1], r) = PyBool(TRUE)

\* s.upper(), to state C14.
UpperChar(c) ==
    IF \E i \in 1..Len(Lower) : Lower[i] = c
    THEN Upper[CHOOSE i \in 1..Len(Lower) : Lower[i] = c]
    ELSE c

upper(s) == [i \in 1..Len(s) |-> UpperChar(s[i])]

\* C14: Version.parse treats the releaselevel token case-insensitively: for
\* every text that Version.parse accepts and whose releaselevel token (the
\* only token, or the first of three) is a dev tag, the text with that token
\* upper-cased is accepted too and parses to an equal Version, also when the
\* number has no micro and the micro is forced to 0.
C14_CaseInsensitive ==
    LET toks == Split(Text, "-")
        shouted == Join(<<toks[1], upper(toks[2])>>
                            \o SubSeq(toks, 3, Len(toks)), "-")
    IN  (/\ call.fn = "Version.parse"
         /\ versionObj.k = "Version"
         /\ Len(toks) \in {2, 4}
         /\ IsDevTag(toks[2])) => Version_parse(shouted) = versionObj

====
